---- MODULE Spec2Model ----
(***************************************************************************)
(* TravelBot (travelbot_mvp_app.py): the itinerary core (score_poi,        *)
(* plan_itinerary) and the /plan handler with its two fallible             *)
(* collaborators (attach_maps_info_to_plan, llm_rewrite).                  *)
(*                                                                         *)
(* Strings of the source that are not ASCII are written as ASCII glosses:  *)
(*   tags   야경 night_view   먹거리 food      쇼핑 shopping   역사 history       *)
(*          자연 nature       전망 overlook    가족 family     실내 indoor        *)
(*          동물 animal       레트로 retro     사진 photo      전통 traditional   *)
(*          산책 walk         현대건축 architecture  전시 exhibition              *)
(*          재래시장 market   카페 cafe                                          *)
(*   names  도톤보리 Dotonbori, 오사카성 공원 OsakaCastlePark,                    *)
(*          우메다 스카이빌딩 공중정원 UmedaSkyBuilding, 가이유칸 수족관 Kaiyukan,  *)
(*          호젠지 요코초 HozenjiYokocho, 북촌 한옥마을 Bukchon, DDP,             *)
(*          남산서울타워 NamsanTower, 광장시장 GwangjangMarket                    *)
(* Scores are floats with one decimal in the source; here they are the     *)
(* same numbers in tenths (2.0 -> 20, 1.5 -> 15, 0.8 -> 8, -1 -> -10,      *)
(* -0.5 -> -5), so order, ties and sign are those of the source.           *)
(***************************************************************************)
EXTENDS Integers, Sequences, FiniteSets

VARIABLES
    pc,             \* position in plan_itinerary / plan
    pref,           \* UserPref
    variant,        \* plan_itinerary's variant argument
    ranked,         \* plan_itinerary's local ranked
    i,              \* plan_itinerary's loop index
    itinerary,      \* plan_itinerary's local itinerary: day name -> items
    result,         \* plan_itinerary's return value
    data,           \* the /plan request body
    USE_LLM,        \* module global, set at import
    GOOGLE_MAPS_API_KEY, \* module global: TRUE when the key is set
    num_plans,      \* plan's local
    plan_i,         \* plan's loop index
    draft,          \* plan's local: the plan being decorated
    plans_payload,  \* plan's local
    issues,         \* external-service misbehaviours so far in this request
    fault,          \* the exception that left the function, or "none"
    response        \* what plan() returned

vars == <<pc, pref, variant, ranked, i, itinerary, result, data, USE_LLM,
          GOOGLE_MAPS_API_KEY, num_plans, plan_i, draft, plans_payload,
          issues, fault, response>>

planVars == <<data, USE_LLM, GOOGLE_MAPS_API_KEY, num_plans, plan_i, draft,
              plans_payload, issues, response>>

(***************************************************************************)
(* Bounds of the model.                                                    *)
(***************************************************************************)
MaxDays == 3
MaxVariant == 3
MaxNumPlansInput == 4
MaxIssues == 1

NoneValue == "None"
Absent == "absent"

(***************************************************************************)
(* The catalog and the slot list.                                          *)
(***************************************************************************)
POIS == <<
    [city |-> "osaka", name |-> "Dotonbori",
     tags |-> {"night_view", "food", "shopping"},
     avg_stay |-> 90, walk_min |-> 10, price |-> "$", notes |-> "glico photo spot"],
    [city |-> "osaka", name |-> "OsakaCastlePark",
     tags |-> {"history", "nature"},
     avg_stay |-> 120, walk_min |-> 20, price |-> "$", notes |-> "cherry blossom"],
    [city |-> "osaka", name |-> "UmedaSkyBuilding",
     tags |-> {"night_view", "overlook"},
     avg_stay |-> 80, walk_min |-> 15, price |-> "$$", notes |-> "observatory fee"],
    [city |-> "osaka", name |-> "Kaiyukan",
     tags |-> {"family", "indoor", "animal"},
     avg_stay |-> 150, walk_min |-> 18, price |-> "$$$", notes |-> "popular with kids"],
    [city |-> "osaka", name |-> "HozenjiYokocho",
     tags |-> {"retro", "food", "photo"},
     avg_stay |-> 60, walk_min |-> 8, price |-> "$$", notes |-> "nice at night"],
    [city |-> "seoul", name |-> "Bukchon",
     tags |-> {"traditional", "photo", "walk"},
     avg_stay |-> 90, walk_min |-> 15, price |-> "$", notes |-> "hanbok experience"],
    [city |-> "seoul", name |-> "DDP",
     tags |-> {"architecture", "exhibition", "photo"},
     avg_stay |-> 70, walk_min |-> 12, price |-> "$", notes |-> "exhibitions vary"],
    [city |-> "seoul", name |-> "NamsanTower",
     tags |-> {"overlook", "night_view"},
     avg_stay |-> 80, walk_min |-> 20, price |-> "$$", notes |-> "cable car option"],
    [city |-> "seoul", name |-> "GwangjangMarket",
     tags |-> {"food", "market"},
     avg_stay |-> 60, walk_min |-> 10, price |-> "$", notes |-> "bindaetteok"] >>

SLOTS == <<"Morning", "Lunch", "Afternoon", "Dinner", "Night">>

(***************************************************************************)
(* str.lower() and str.strip() on the strings the model draws its cities   *)
(* and interests from.                                                     *)
(***************************************************************************)
Lower(s) ==
    CASE s = "Osaka" -> "osaka"
      [] s = "SEOUL" -> "seoul"
      [] OTHER -> s

Strip(s) ==
    CASE s = " night_view " -> "night_view"
      [] s = "food " -> "food"
      [] OTHER -> s

(* Python's a % b for b # 0: the result has the sign of b. *)
PyMod(a, b) == IF b > 0 THEN a % b ELSE 0 - ((0 - a) % (0 - b))

Range(s) == {s[k] : k \in DOMAIN s}

(***************************************************************************)
(* score_poi, in tenths.                                                   *)
(***************************************************************************)
StyleBonus(poi, p) ==
    CASE p.travel_style = "relax" ->
            IF "nature" \in poi.tags \/ "walk" \in poi.tags \/ "cafe" \in poi.tags
            THEN 15 ELSE 0
      [] p.travel_style = "foodie" ->
            IF "food" \in poi.tags THEN 20 ELSE 0
      [] p.travel_style = "sightseeing" ->
            IF "history" \in poi.tags \/ "traditional" \in poi.tags
               \/ "overlook" \in poi.tags
            THEN 15 ELSE 0
      [] p.travel_style = "shopping" ->
            IF "shopping" \in poi.tags \/ "market" \in poi.tags THEN 15 ELSE 0
      [] OTHER -> 0

ScoreInCity(poi, p) ==
    IF poi.walk_min > p.max_walk_min THEN -5
    ELSE LET overlap ==
                 Cardinality(poi.tags \cap {Strip(t) : t \in Range(p.interests)})
             kids == IF p.with_kids
                        /\ ("family" \in poi.tags \/ "indoor" \in poi.tags)
                     THEN 15 ELSE 0
             night == IF "night_view" \in poi.tags \/ "overlook" \in poi.tags
                      THEN 8 ELSE 0
         IN  overlap * 20 + kids + night + StyleBonus(poi, p)

\* score_poi without the city test of lines 133-134
score_poi_any_city(poi, p) == ScoreInCity(poi, p)

score_poi(poi, p) ==
    IF Lower(poi.city) # Lower(p.city) THEN -10 ELSE ScoreInCity(poi, p)

(***************************************************************************)
(* sorted(POIS, key=score, reverse=True): a stable sort, so elements of    *)
(* equal key keep the order of the input.  Each element is inserted after  *)
(* every element already placed whose key is at least its own.             *)
(***************************************************************************)
\* an insertion that puts an element before those of equal key
InsertTiesFirst(s, poi, p) ==
    LET before == {k \in 1..Len(s) : score_poi(s[k], p) > score_poi(poi, p)}
        n == Cardinality(before)
    IN  SubSeq(s, 1, n) \o <<poi>> \o SubSeq(s, n + 1, Len(s))

InsertByScore(s, poi, p) ==
    LET before == {k \in 1..Len(s) : score_poi(s[k], p) >= score_poi(poi, p)}
        n == Cardinality(before)
    IN  SubSeq(s, 1, n) \o <<poi>> \o SubSeq(s, n + 1, Len(s))

RECURSIVE SortedPrefix(_, _, _)
SortedPrefix(s, n, p) ==
    IF n = 0 THEN <<>>
    ELSE InsertByScore(SortedPrefix(s, n - 1, p), s[n], p)

SortedByScore(s, p) == SortedPrefix(s, Len(s), p)

PositiveOnly(s, p) == SelectSeq(s, LAMBDA poi : score_poi(poi, p) > 0)

(***************************************************************************)
(* The rotation of lines 192-194.                                          *)
(***************************************************************************)
\* a rotation to the right: ranked[-shift:] + ranked[:-shift]
RotatedRight(s, v) ==
    IF v > 0 /\ Len(s) > 1
    THEN LET shift == v % Len(s)
         IN  SubSeq(s, Len(s) - shift + 1, Len(s)) \o SubSeq(s, 1, Len(s) - shift)
    ELSE s

\* no rotation
NotRotated(s, v) == s

Rotated(s, v) ==
    IF v > 0 /\ Len(s) > 1
    THEN LET shift == v % Len(s)
         IN  SubSeq(s, shift + 1, Len(s)) \o SubSeq(s, 1, shift)
    ELSE s

(***************************************************************************)
(* The itinerary: f"Day {d}" for d in range(1, days + 1), each empty.      *)
(***************************************************************************)
DayName(d) == <<"Day", d>>

\* range(1, days): one day short
EmptyDaysShort(days) == [k \in {DayName(d) : d \in 1..(days - 1)} |-> <<>>]

EmptyDays(days) == [k \in {DayName(d) : d \in 1..days} |-> <<>>]

(***************************************************************************)
(* One pass of the allocation loop, lines 203-227.                         *)
(***************************************************************************)
Scenic(tags) == "night_view" \in tags \/ "overlook" \in tags

\* (i + 1) % days
DayIndexOffByOne(idx, days) == PyMod(idx + 1, days)

DayIndex(idx, days) == PyMod(idx, days)

\* day_index % len(SLOTS)
SlotIndexByDay(day_plan, day_index) == day_index % Len(SLOTS)

SlotIndex(day_plan, day_index) == Len(day_plan) % Len(SLOTS)

\* the override trying Dinner before Night
SlotDinnerFirst(day_plan, tags, slot) ==
    IF Scenic(tags)
    THEN LET used_slots == {day_plan[k].slot : k \in DOMAIN day_plan}
         IN  IF "Dinner" \notin used_slots THEN "Dinner"
             ELSE IF "Night" \notin used_slots THEN "Night"
             ELSE slot
    ELSE slot

SlotOverride(day_plan, tags, slot) ==
    IF Scenic(tags)
    THEN LET used_slots == {day_plan[k].slot : k \in DOMAIN day_plan}
         IN  IF "Night" \notin used_slots THEN "Night"
             ELSE IF "Dinner" \notin used_slots THEN "Dinner"
             ELSE slot
    ELSE slot

Item(slot, poi) ==
    [slot |-> slot, name |-> poi.name, tags |-> poi.tags,
     eta_min |-> poi.avg_stay, walk_min |-> poi.walk_min,
     price |-> poi.price, notes |-> poi.notes]

(* The exception the pass raises, or "none". *)
AllocFault(itin, idx, days) ==
    IF days = 0 THEN "ZeroDivisionError"
    ELSE IF DayName(DayIndex(idx, days) + 1) \notin DOMAIN itin THEN "KeyError"
    ELSE "none"

AllocItem(itin, idx, poi, days) ==
    LET day_index == DayIndex(idx, days)
        day_name == DayName(day_index + 1)
        day_plan == itin[day_name]
        slot == SLOTS[SlotIndex(day_plan, day_index) + 1]
    IN  [itin EXCEPT ![day_name] =
            Append(day_plan, Item(SlotOverride(day_plan, poi.tags, slot), poi))]

Returned(p, itin) == [city |-> p.city, days |-> p.days, itinerary |-> itin]

(***************************************************************************)
(* The inputs the model draws from.                                        *)
(***************************************************************************)
Cities == {"osaka", "Osaka", "seoul", "busan"}
WalkChoices == {9, 20}
Styles == {"relax", "foodie", "sightseeing", "shopping", "mixed"}

InterestLists ==
    {<<>>, <<"night_view">>, <<"food">>, <<" night_view ", "night_view">>,
     <<"food ", "history">>, <<"night_view", "food">>,
     <<"traditional", "photo">>}

UserPref(city, days, interests, with_kids, budget, max_walk_min, travel_style) ==
    [city |-> city, days |-> days, interests |-> interests,
     with_kids |-> with_kids, budget |-> budget,
     max_walk_min |-> max_walk_min, travel_style |-> travel_style]

Prefs ==
    {UserPref(c, d, ins, k, "$$", w, st) :
        c \in Cities, d \in 1..MaxDays, ins \in InterestLists,
        k \in BOOLEAN, w \in WalkChoices, st \in Styles}

(***************************************************************************)
(* plan_itinerary, one action per step.                                    *)
(***************************************************************************)
\* line 180
Sort ==
    /\ pc = "sort"
    /\ ranked' = SortedByScore(POIS, pref)
    /\ pc' = "filter"
    /\ UNCHANGED <<pref, variant, i, itinerary, result, fault>>
    /\ UNCHANGED planVars

\* lines 181-189
Filter ==
    /\ pc = "filter"
    /\ ranked' = PositiveOnly(ranked, pref)
    /\ IF ranked' = <<>>
       THEN /\ result' = Returned(pref, EmptyDays(pref.days))
            /\ pc' = "done"
       ELSE /\ result' = result
            /\ pc' = "rotate"
    /\ UNCHANGED <<pref, variant, i, itinerary, fault>>
    /\ UNCHANGED planVars

\* lines 191-199
Rotate ==
    /\ pc = "rotate"
    /\ ranked' = Rotated(ranked, variant)
    /\ itinerary' = EmptyDays(pref.days)
    /\ i' = 0
    /\ pc' = "alloc"
    /\ UNCHANGED <<pref, variant, result, fault>>
    /\ UNCHANGED planVars

\* lines 202-227, one pass of the loop
Alloc ==
    /\ pc = "alloc"
    /\ i < Len(ranked)
    /\ AllocFault(itinerary, i, pref.days) = "none"
    /\ itinerary' = AllocItem(itinerary, i, ranked[i + 1], pref.days)
    /\ i' = i + 1
    /\ UNCHANGED <<pc, pref, variant, ranked, result, fault>>
    /\ UNCHANGED planVars

\* lines 203-205 raising: i % 0, or a day name the itinerary does not hold
AllocRaise ==
    /\ pc = "alloc"
    /\ i < Len(ranked)
    /\ AllocFault(itinerary, i, pref.days) # "none"
    /\ fault' = AllocFault(itinerary, i, pref.days)
    /\ pc' = "fault"
    /\ UNCHANGED <<pref, variant, ranked, i, itinerary, result>>
    /\ UNCHANGED planVars

\* lines 229-233
Return ==
    /\ pc = "alloc"
    /\ i = Len(ranked)
    /\ result' = Returned(pref, itinerary)
    /\ pc' = "done"
    /\ UNCHANGED <<pref, variant, ranked, i, itinerary, fault>>
    /\ UNCHANGED planVars

NextCore == Sort \/ Filter \/ Rotate \/ Alloc \/ Return

InitCore ==
    /\ pc = "sort"
    /\ pref \in Prefs
    /\ variant \in 0..MaxVariant
    /\ ranked = <<>>
    /\ i = 0
    /\ itinerary = <<>>
    /\ result = <<>>
    /\ fault = "none"
    /\ data = <<>>
    /\ USE_LLM = FALSE
    /\ GOOGLE_MAPS_API_KEY = FALSE
    /\ num_plans = 0
    /\ plan_i = 0
    /\ draft = <<>>
    /\ plans_payload = <<>>
    /\ issues = 0
    /\ response = <<>>

Spec == InitCore /\ [][NextCore]_vars

(***************************************************************************)
(* The /plan handler.  A request body is a JSON object: here a function    *)
(* from the keys it holds to their values, read with data.get(key,         *)
(* default).                                                               *)
(***************************************************************************)
Get(d, key, default) == IF key \in DOMAIN d THEN d[key] ELSE default

RequestInterests == {<<>>, <<"food", "night_view">>, <<"night_view">>}

Requests ==
    {<<>>} \cup
    {[city |-> c, days |-> d, interests |-> ins, max_walk_min |-> w,
      num_plans |-> n] :
        c \in {"osaka", "seoul"}, d \in -1..MaxDays, ins \in RequestInterests,
        w \in WalkChoices, n \in 0..MaxNumPlansInput}

\* lines 370-374
ClampNumPlans(n) == IF n < 1 THEN 1 ELSE IF n > 3 THEN 3 ELSE n

\* chr(65 + i)
PlanId(k) == <<"A", "B", "C">>[k + 1]

\* lines 360-376
PlanParse ==
    /\ pc = "request"
    /\ pref' = UserPref(Get(data, "city", "osaka"),
                        Get(data, "days", 2),
                        Get(data, "interests", <<"food", "night_view">>),
                        Get(data, "with_kids", FALSE),
                        Get(data, "budget", "$$"),
                        Get(data, "max_walk_min", 20),
                        Get(data, "travel_style", "mixed"))
    /\ num_plans' = ClampNumPlans(Get(data, "num_plans", 1))
    /\ plans_payload' = <<>>
    /\ plan_i' = 0
    /\ pc' = "loop"
    /\ UNCHANGED <<variant, ranked, i, itinerary, result, fault, data, USE_LLM,
                   GOOGLE_MAPS_API_KEY, draft, issues, response>>

\* lines 379-380: the next pass of the loop invokes plan_itinerary(pref, variant=i)
PlanCall ==
    /\ pc = "loop"
    /\ plan_i < num_plans
    /\ variant' = plan_i
    /\ pc' = "sort"
    /\ UNCHANGED <<pref, ranked, i, itinerary, result, fault>>
    /\ UNCHANGED planVars

(***************************************************************************)
(* attach_maps_info_to_plan: every item gets maps_url; with a key, each    *)
(* lookup finds a place, finds none, or raises.                            *)
(***************************************************************************)
Positions(itin) ==
    {pos \in (DOMAIN itin) \X (1..Len(POIS)) : pos[2] <= Len(itin[pos[1]])}

LookupOutcomes == {"found", "no_results", "raises"}

Misses(o) == Cardinality({pos \in DOMAIN o : o[pos] # "found"})

MapsUrl(item, p) == <<"maps/search", item.name, p.city>>

\* lines 248-267 for one item; outcome "no_key" when line 252 is false
Decorated(item, p, outcome) ==
    [slot |-> item.slot, name |-> item.name, tags |-> item.tags,
     eta_min |-> item.eta_min, walk_min |-> item.walk_min,
     price |-> item.price, notes |-> item.notes,
     maps_url |-> MapsUrl(item, p),
     lat |-> CASE outcome = "found" -> "value"
               [] outcome = "raises" -> NoneValue
               [] OTHER -> Absent,
     lng |-> CASE outcome = "found" -> "value"
               [] outcome = "raises" -> NoneValue
               [] OTHER -> Absent]

AttachedItinerary(itin, p, o) ==
    [d \in DOMAIN itin |->
        [k \in 1..Len(itin[d]) |-> Decorated(itin[d][k], p, o[<<d, k>>])]]

\* line 381
AttachMaps ==
    /\ pc = "done"
    /\ \E o \in [Positions(result.itinerary) -> LookupOutcomes \cup {"no_key"}] :
          /\ \A pos \in DOMAIN o : (o[pos] = "no_key") <=> ~GOOGLE_MAPS_API_KEY
          /\ LET n == IF GOOGLE_MAPS_API_KEY THEN Misses(o) ELSE 0
             IN  /\ issues + n <= MaxIssues
                 /\ issues' = issues + n
          /\ draft' = [result EXCEPT
                          !.itinerary = AttachedItinerary(result.itinerary, pref, o)]
    /\ pc' = "llm"
    /\ UNCHANGED <<pref, variant, ranked, i, itinerary, result, fault, data,
                   USE_LLM, GOOGLE_MAPS_API_KEY, num_plans, plan_i,
                   plans_payload, response>>

(***************************************************************************)
(* llm_rewrite.                                                            *)
(***************************************************************************)
\* str.title() on the model's cities
Title(s) ==
    CASE s = "osaka" -> "Osaka"
      [] s = "seoul" -> "Seoul"
      [] s = "busan" -> "Busan"
      [] OTHER -> s

\* lines 283-301
Template(p) ==
    [narrative |-> <<"template", Title(p.city), p.days, p.interests,
                     p.travel_style, p.max_walk_min, p.with_kids>>,
     summary |-> [for_who |-> "first-time visitors",
                  highlights |-> <<"curated by interest and style",
                                   "walking time limited",
                                   "family-friendly spots weighted">>,
                  warnings |-> <<"hours, closures and weather vary",
                                 "travel time and transport vary">>]]

\* what the model call gives: a JSON object, text that is no JSON, JSON that
\* is no object, or an exception
LlmOutcomes == {"json_object", "not_json", "not_object", "raises"}

\* lines 332-344 for the outcomes that return
LlmReturned(outcome) ==
    IF outcome = "json_object"
    THEN [narrative |-> <<"llm narrative">>, summary |-> <<"llm summary">>]
    ELSE [narrative |-> <<"raw model text">>, summary |-> <<>>]

\* the exception that leaves llm_rewrite, or "none"
LlmFault(outcome) ==
    CASE outcome = "raises" -> "ModelCallError"
      [] outcome = "not_object" -> "AttributeError"
      [] OTHER -> "none"

PayloadEntry(k, d, enhanced) ==
    [id |-> PlanId(k), draft |-> d, narrative |-> enhanced.narrative,
     summary |-> enhanced.summary]

\* lines 382-389 when llm_rewrite returns
LlmRewrite ==
    /\ pc = "llm"
    /\ \E outcome \in LlmOutcomes \cup {"unused"} :
          /\ (outcome = "unused") <=> ~USE_LLM
          /\ LlmFault(outcome) = "none"
          /\ LET n == IF outcome \in {"json_object", "unused"} THEN 0 ELSE 1
             IN  /\ issues + n <= MaxIssues
                 /\ issues' = issues + n
          /\ plans_payload' =
                Append(plans_payload,
                       PayloadEntry(plan_i, draft,
                                    IF outcome = "unused" THEN Template(pref)
                                    ELSE LlmReturned(outcome)))
    /\ plan_i' = plan_i + 1
    /\ pc' = "loop"
    /\ UNCHANGED <<pref, variant, ranked, i, itinerary, result, fault, data,
                   USE_LLM, GOOGLE_MAPS_API_KEY, num_plans, draft, response>>

\* line 382 when llm_rewrite raises: nothing in plan() catches it
LlmRaise ==
    /\ pc = "llm"
    /\ USE_LLM
    /\ issues < MaxIssues
    /\ \E outcome \in LlmOutcomes :
          /\ LlmFault(outcome) # "none"
          /\ fault' = LlmFault(outcome)
    /\ issues' = issues + 1
    /\ pc' = "fault"
    /\ UNCHANGED <<pref, variant, ranked, i, itinerary, result, data, USE_LLM,
                   GOOGLE_MAPS_API_KEY, num_plans, plan_i, draft,
                   plans_payload, response>>

\* lines 391-399
PlanRespond ==
    /\ pc = "loop"
    /\ plan_i >= num_plans
    /\ response' = [pref |-> pref, plans |-> plans_payload,
                    draft |-> IF plans_payload # <<>>
                              THEN plans_payload[1].draft ELSE NoneValue,
                    narrative |-> IF plans_payload # <<>>
                                  THEN plans_payload[1].narrative ELSE <<>>]
    /\ pc' = "responded"
    /\ UNCHANGED <<pref, variant, ranked, i, itinerary, result, fault, data,
                   USE_LLM, GOOGLE_MAPS_API_KEY, num_plans, plan_i, draft,
                   plans_payload, issues>>

NextPlan ==
    \/ PlanParse \/ PlanCall
    \/ Sort \/ Filter \/ Rotate \/ Alloc \/ AllocRaise \/ Return
    \/ AttachMaps \/ LlmRewrite \/ LlmRaise \/ PlanRespond

InitPlan ==
    /\ pc = "request"
    /\ data \in Requests
    /\ USE_LLM \in BOOLEAN
    /\ GOOGLE_MAPS_API_KEY \in BOOLEAN
    /\ pref = <<>>
    /\ variant = 0
    /\ ranked = <<>>
    /\ i = 0
    /\ itinerary = <<>>
    /\ result = <<>>
    /\ fault = "none"
    /\ num_plans = 0
    /\ plan_i = 0
    /\ draft = <<>>
    /\ plans_payload = <<>>
    /\ issues = 0
    /\ response = <<>>

SpecPlan == InitPlan /\ [][NextPlan]_vars

(***************************************************************************)
(* Properties of plan_itinerary, stated for Spec.                          *)
(***************************************************************************)
Count(name, itin) ==
    Cardinality({pos \in Positions(itin) : itin[pos[1]][pos[2]].name = name})

Catalog == Range(POIS)

CatalogIndex(poi) == CHOOSE k \in DOMAIN POIS : POIS[k] = poi

Running == pc \in {"alloc", "done"} /\ ranked # <<>>

\* C1: with days = N >= 1 the returned itinerary has exactly the keys
\* Day 1 .. Day N; when no POI scores above zero every day is there and
\* empty; and no pass of the loop raises.
C1_DayCoverage ==
    /\ pc = "done" =>
          /\ DOMAIN result.itinerary = {DayName(d) : d \in 1..pref.days}
          /\ result.days = pref.days
          /\ (\A poi \in Catalog : score_poi(poi, pref) <= 0) =>
                \A d \in 1..pref.days : result.itinerary[DayName(d)] = <<>>
    /\ (pc = "alloc" /\ i < Len(ranked)) =>
          AllocFault(itinerary, i, pref.days) = "none"

C1_Witness ==
    /\ pc = "done"
    /\ pref.days >= 2
    /\ \A poi \in Catalog : score_poi(poi, pref) <= 0
    /\ \A d \in 1..pref.days : result.itinerary[DayName(d)] = <<>>

\* C2 (as amended): the returned itinerary holds exactly the catalog POIs
\* that score above zero, each once; a POI whose city differs from pref.city
\* when letter case is ignored, or whose walk_min exceeds max_walk_min,
\* is in no day.
C2_ExactlyThePositive ==
    pc = "done" =>
        \A poi \in Catalog :
            /\ Count(poi.name, result.itinerary)
                  = (IF score_poi(poi, pref) > 0 THEN 1 ELSE 0)
            /\ (Lower(poi.city) # Lower(pref.city)
                   \/ poi.walk_min > pref.max_walk_min)
                  => Count(poi.name, result.itinerary) = 0

C2_Witness ==
    /\ pc = "done"
    /\ pref.city = "Osaka"
    /\ Count("HozenjiYokocho", result.itinerary) = 1
    /\ Count("Dotonbori", result.itinerary) = 0
    /\ POIS[1].walk_min > pref.max_walk_min

\* C2 as stated: a POI whose city string differs from pref.city is in no day.
C2_AsStated ==
    pc = "done" =>
        \A poi \in Catalog :
            /\ Count(poi.name, result.itinerary)
                  = (IF score_poi(poi, pref) > 0 THEN 1 ELSE 0)
            /\ (poi.city # pref.city \/ poi.walk_min > pref.max_walk_min)
                  => Count(poi.name, result.itinerary) = 0

\* C3: the i-th element (from 0) of the rotated sequence is in day
\* (i mod days) + 1, and a day lists its elements in the order of i.
C3_RoundRobin ==
    Running =>
        /\ \A d \in 1..pref.days :
              LET mine == {k \in 0..(i - 1) : k % pref.days = d - 1}
                  day_plan == itinerary[DayName(d)]
              IN  /\ Len(day_plan) = Cardinality(mine)
                  /\ \A j \in 1..Len(day_plan) :
                        day_plan[j].name
                           = ranked[(j - 1) * pref.days + (d - 1) + 1].name
        /\ pc = "done" => result.itinerary = itinerary /\ i = Len(ranked)

C3_Witness ==
    /\ pc = "done"
    /\ pref.days = 2
    /\ Len(ranked) >= 4
    /\ Len(result.itinerary[DayName(2)]) >= 2

\* C4: the variant-0 sequence is in non-increasing order of score, and POIs
\* of equal score are in the order of POIS.
C4_StableDescending ==
    (pc \in {"filter", "rotate"} \/ (variant = 0 /\ pc \in {"alloc", "done"})) =>
        \A a, b \in DOMAIN ranked :
            a < b =>
                /\ score_poi(ranked[a], pref) >= score_poi(ranked[b], pref)
                /\ score_poi(ranked[a], pref) = score_poi(ranked[b], pref)
                      => CatalogIndex(ranked[a]) < CatalogIndex(ranked[b])

C4_Witness ==
    /\ pc = "rotate"
    /\ Len(ranked) >= 3
    /\ \E a, b \in DOMAIN ranked :
          /\ a < b
          /\ score_poi(ranked[a], pref) = score_poi(ranked[b], pref)
          /\ CatalogIndex(ranked[b]) > CatalogIndex(ranked[a]) + 1

\* C5: the sequence that is allocated is the variant-0 sequence rotated left
\* by variant mod length when its length is above 1, and is the variant-0
\* sequence itself otherwise.
C5_RotationLaw ==
    Running =>
        LET r0 == PositiveOnly(SortedByScore(POIS, pref), pref)
            n == Len(r0)
        IN  /\ Len(ranked) = n
            /\ \A k \in 1..n :
                  ranked[k] = IF n > 1
                              THEN r0[((k - 1 + (variant % n)) % n) + 1]
                              ELSE r0[k]

C5_Witness ==
    /\ pc = "done"
    /\ Len(ranked) > 1
    /\ variant > Len(ranked)
    /\ variant % Len(ranked) # 0

\* C8: a night_view or overlook POI gets Night if no earlier item of its day
\* has it, else Dinner if no earlier item of its day has it, else the default
\* slot SLOTS[length of the day so far mod 5]; any other POI gets the default
\* slot.  Two scenic POIs tied at the top of a one-day plan get Night, then
\* Dinner.
ExpectedSlot(day_plan, j) ==
    LET used == {day_plan[k].slot : k \in 1..(j - 1)}
        default == SLOTS[((j - 1) % 5) + 1]
    IN  IF ~Scenic(day_plan[j].tags) THEN default
        ELSE IF "Night" \notin used THEN "Night"
        ELSE IF "Dinner" \notin used THEN "Dinner"
        ELSE default

ScenarioPref == UserPref("osaka", 1, <<"night_view">>, FALSE, "$$", 20, "mixed")

C8_SlotRule ==
    /\ Running =>
          \A pos \in Positions(itinerary) :
              itinerary[pos[1]][pos[2]].slot
                 = ExpectedSlot(itinerary[pos[1]], pos[2])
    /\ (pc = "done" /\ pref = ScenarioPref /\ variant = 0) =>
          LET day == result.itinerary[DayName(1)]
          IN  /\ Len(day) = 2
              /\ day[1].slot = "Night" /\ day[1].name = "Dotonbori"
              /\ day[2].slot = "Dinner" /\ day[2].name = "UmedaSkyBuilding"

C8_Witness ==
    /\ pc = "done"
    /\ ranked # <<>>
    /\ \E pos \in Positions(result.itinerary) :
          LET day == result.itinerary[pos[1]]
              used == {day[k].slot : k \in 1..(pos[2] - 1)}
          IN  /\ Scenic(day[pos[2]].tags)
              /\ "Night" \in used
              /\ "Dinner" \in used

\* C10 (as amended): among the first five items of a day, two items have the
\* same slot only if the later one is a scenic POI placed when Night and
\* Dinner were both used, or the earlier one is a scenic POI that the
\* override moved to Night or Dinner; two POIs without a scenic tag never
\* share a slot.
SameSlotPairs(day) ==
    {pr \in (1..5) \X (1..5) :
        /\ pr[1] < pr[2]
        /\ pr[2] <= Len(day)
        /\ day[pr[1]].slot = day[pr[2]].slot}

UsedBefore(day, j) == {day[k].slot : k \in 1..(j - 1)}

C10_SameSlotOnlyThroughScenic ==
    Running =>
        \A d \in DOMAIN itinerary :
            \A pr \in SameSlotPairs(itinerary[d]) :
                LET day == itinerary[d]
                    a == pr[1]
                    b == pr[2]
                IN  \/ /\ Scenic(day[b].tags)
                       /\ {"Night", "Dinner"} \subseteq UsedBefore(day, b)
                    \/ /\ ~Scenic(day[b].tags)
                       /\ Scenic(day[a].tags)
                       /\ day[a].slot \in {"Night", "Dinner"}
                       /\ day[a].slot # SLOTS[((a - 1) % 5) + 1]

C10_Witness ==
    /\ pc = "done"
    /\ ranked # <<>>
    /\ \E d \in DOMAIN result.itinerary :
          \E pr \in SameSlotPairs(result.itinerary[d]) :
              /\ ~Scenic(result.itinerary[d][pr[2]].tags)
              /\ Scenic(result.itinerary[d][pr[1]].tags)

\* C10 as stated: two items of a day have the same slot only when the later
\* one is a scenic POI placed after Night and Dinner were both used; a POI
\* without a scenic tag among the first five never gets a used slot.
C10_AsStated ==
    Running =>
        \A d \in DOMAIN itinerary :
            \A pr \in SameSlotPairs(itinerary[d]) :
                /\ Scenic(itinerary[d][pr[2]].tags)
                /\ {"Night", "Dinner"} \subseteq UsedBefore(itinerary[d], pr[2])

(***************************************************************************)
(* Properties of the /plan handler, stated for SpecPlan.                   *)
(***************************************************************************)
TotalItems(d) == Cardinality(Positions(d.itinerary))

FirstPoi(k) == plans_payload[k].draft.itinerary[DayName(1)][1].name

ThreePlans == pc = "responded" /\ Len(plans_payload) = 3

\* C9 (as amended): when the ranked sequence holds at least three POIs, the
\* plans A, B and C start with three different POIs.
C9_DistinctStartsFromThree ==
    (ThreePlans /\ TotalItems(plans_payload[1].draft) >= 3) =>
        /\ FirstPoi(1) # FirstPoi(2)
        /\ FirstPoi(1) # FirstPoi(3)
        /\ FirstPoi(2) # FirstPoi(3)

C9_Witness ==
    /\ ThreePlans
    /\ TotalItems(plans_payload[1].draft) >= 3
    /\ FirstPoi(1) = "Dotonbori"
    /\ FirstPoi(3) = "HozenjiYokocho"

\* C9 as stated: whenever the ranked sequence is not empty, the plans A, B
\* and C start with three different POIs.
C9_AsStated ==
    (ThreePlans /\ TotalItems(plans_payload[1].draft) >= 1) =>
        /\ FirstPoi(1) # FirstPoi(2)
        /\ FirstPoi(1) # FirstPoi(3)
        /\ FirstPoi(2) # FirstPoi(3)

\* C6 as stated: no failure of the geocoding lookup or of the model call
\* leaves plan() as a fault (the only faults are the core's, for days < 1);
\* a lookup that failed leaves lat and lng None; and what plan() returns has
\* pref, plans (each with id, draft, narrative, summary), draft, narrative.
C6_AsStated ==
    /\ pc = "fault" => fault \in {"ZeroDivisionError", "KeyError"}
    /\ pc = "responded" =>
          /\ DOMAIN response = {"pref", "plans", "draft", "narrative"}
          /\ Len(response.plans) = num_plans
          /\ \A k \in DOMAIN response.plans :
                /\ DOMAIN response.plans[k]
                      = {"id", "draft", "narrative", "summary"}
                /\ ~USE_LLM =>
                      /\ response.plans[k].narrative = Template(pref).narrative
                      /\ response.plans[k].summary = Template(pref).summary
                /\ \A pos \in Positions(response.plans[k].draft.itinerary) :
                      LET item == response.plans[k].draft.itinerary[pos[1]][pos[2]]
                      IN  (item.lat = NoneValue) <=> (item.lng = NoneValue)

\* C7 as stated: the handler never enters plan_itinerary with days < 1.
C7_AsStated == pc = "sort" => pref.days >= 1

====
